---- MODULE Spec2Model ----
(***************************************************************************)
(* Hartree-Fock pretraining of a neural wavefunction (ferminet/pretrain.py) *)
(*                                                                         *)
(* Numeric conventions of the model                                        *)
(*  - an array is a record [shape, flat]: its shape and its elements in    *)
(*    row-major order, as numpy stores them;                               *)
(*  - real numbers are integers; a float of the training path is an        *)
(*    integer in -FMax..FMax or NaN, the one non-finite value (overflow);  *)
(*  - a log-magnitude l is represented by e^l, so that -inf is 0 and the   *)
(*    sum of two log-magnitudes is the product of their representatives.   *)
(***************************************************************************)
EXTENDS Integers, Sequences, FiniteSets, TLC

VARIABLES
  \* eval_orbitals / eval_slater called on their own
  o_pc, o_pos, o_spins, o_ret, o_slater,
  \* the target of loss_fn built on its own
  f_pc, f_target, f_full

VARIABLES
  \* pretrain_hartree_fock: its arguments
  arg_params, arg_data, iterations, envelope_type, full_det,
  \* pretrain_hartree_fock: its position and its locals
  pc, envelope_fn, params, opt_state_pt, data, logprob, sharded_key, t, target,
  loss, logged, ret, steps,
  \* pretrain_step on each worker: its position and its locals
  wpc, w_data, w_params, w_state, w_logprob, w_env, result, loss_val,
  search_direction, w_accepts, mh_calls

orbVars == <<o_pc, o_pos, o_spins, o_ret, o_slater>>

tgtVars == <<f_pc, f_target, f_full>>

argVars == <<arg_params, arg_data, iterations, envelope_type, full_det>>

drvVars == <<pc, envelope_fn, params, opt_state_pt, data, logprob, sharded_key,
             t, target, loss, logged, ret, steps>>

stepVars == <<wpc, w_data, w_params, w_state, w_logprob, w_env, result,
              loss_val, search_direction, w_accepts, mh_calls>>

vars == <<orbVars, tgtVars, argVars, drvVars, stepVars>>

-----------------------------------------------------------------------------
\* Bounds of the model
MaxSpin == 2
MaxCoord == 1
MaxBatch == 2
MaxDev == 2
\* number of basis functions of the SCF solution beyond the occupied ones
ExtraBasis == 1
\* largest finite float
FMax == 100
\* largest iteration count of the driver
MaxIter == 2
\* number of parallel workers (devices)
NumWorkers == 2
\* number of determinants of the network
NDet == 1

-----------------------------------------------------------------------------
\* Arrays

RECURSIVE Prod(_)
Prod(s) == IF s = <<>> THEN 1 ELSE Head(s) * Prod(Tail(s))

Front(s) == SubSeq(s, 1, Len(s) - 1)

Arr(shape, flat) == [shape |-> shape, flat |-> flat]

EmptyArr == Arr(<<0>>, <<>>)

Size(a) == Len(a.flat)

\* np.reshape's shape inference: at most one -1, filled from the size; the
\* unknown dimension cannot be inferred when the known ones multiply to 0.
ReshapeShape(size, ns) ==
  LET unknown == {i \in DOMAIN ns : ns[i] = -1}
      known == Prod([i \in DOMAIN ns |-> IF ns[i] = -1 THEN 1 ELSE ns[i]])
  IN IF unknown = {}
       THEN [ok |-> known = size, shape |-> ns]
       ELSE IF known = 0 \/ size % known # 0
              THEN [ok |-> FALSE, shape |-> ns]
              ELSE [ok |-> TRUE,
                    shape |-> [i \in DOMAIN ns |->
                                 IF ns[i] = -1 THEN size \div known ELSE ns[i]]]

NumRows(a) == a.shape[Len(a.shape) - 1]

\* a[..., r0:r1, :c1] on an array whose last two axes are rows and columns
SliceLast2(a, r0, r1, c1) ==
  LET rank == Len(a.shape)
      R == a.shape[rank - 1]
      C == a.shape[rank]
      lead == SubSeq(a.shape, 1, rank - 2)
      lo == IF r0 < R THEN r0 ELSE R
      hi == IF r1 < R THEN r1 ELSE R
      nr == IF hi > lo THEN hi - lo ELSE 0
      nc == IF c1 < C THEN c1 ELSE C
      L == Prod(lead)
  IN Arr(lead \o <<nr, nc>>,
         [k \in 1..(L * nr * nc) |->
            LET l == (k - 1) \div (nr * nc)
                i == ((k - 1) % (nr * nc)) \div nc
                j == (k - 1) % nc
            IN a.flat[(l * R + lo + i) * C + j + 1]])

-----------------------------------------------------------------------------
\* The SCF solution (scf.Scf): its molecular orbitals at a point

RECURSIVE Pow(_, _)
Pow(b, e) == IF e = 0 THEN 1 ELSE b * Pow(b, e - 1)

\* the electron positions the model draws walkers from
Points == {<<c, 1, 2 * c>> : c \in 0..MaxCoord}

NBasis == MaxSpin + ExtraBasis

\* value of molecular orbital k of spin channel s (0 alpha, 1 beta) at r
MoValue(s, k, r) ==
  IF s = 0 THEN Pow(r[1] + r[2], k)
           ELSE Pow(r[3] + r[2] + 1, k)

\* scf_approx.eval_mos on an (m, 3) array: an (m, nbasis) array per channel
EvalMos(a, s) ==
  Arr(<<a.shape[1], NBasis>>,
      [k \in 1..(a.shape[1] * NBasis) |->
         LET i == (k - 1) \div NBasis
         IN MoValue(s, ((k - 1) % NBasis) + 1,
                    <<a.flat[3 * i + 1], a.flat[3 * i + 2], a.flat[3 * i + 3]>>)])

-----------------------------------------------------------------------------
\* eval_orbitals

PosKinds == {"ndarray", "jax_array", "list", "tuple", "float", "none"}

ArrayKinds == {"ndarray", "jax_array"}

\* isinstance(pos, np.ndarray)
IsNdarray(kind) == kind = "ndarray"

\* whether pos.copy() exists: a Python list has a copy method
HasCopy(kind) == kind \in {"ndarray", "jax_array", "list"}

\* whether the value has a shape attribute
HasShape(kind) == kind \in {"ndarray", "jax_array"}

OrbRet(err, alpha, beta) == [err |-> err, alpha |-> alpha, beta |-> beta]

Reshaped(a, ns) == Arr(ReshapeShape(Size(a), ns).shape, a.flat)

\* eval_orbitals taking the beta block from the rows of the spin-up electrons
EvalOrbitalsBetaUpRows(pos, spins) ==
  LET nelec == spins[1] + spins[2]
      leading_dims == Front(pos.shape)
      flat3 == Reshaped(pos, <<-1, 3>>)
      mo(s) == Reshaped(EvalMos(flat3, s), leading_dims \o <<nelec, -1>>)
  IN OrbRet("none", SliceLast2(mo(0), 0, spins[1], spins[1]),
            SliceLast2(mo(1), 0, spins[2], spins[2]))

EvalOrbitalsBody(pos, spins) ==
  LET nelec == spins[1] + spins[2]
      leading_dims == Front(pos.shape)
      flat3 == Reshaped(pos, <<-1, 3>>)
      mo(s) == Reshaped(EvalMos(flat3, s), leading_dims \o <<nelec, -1>>)
  IN OrbRet("none", SliceLast2(mo(0), 0, spins[1], spins[1]),
            SliceLast2(mo(1), spins[1], NumRows(mo(1)), spins[2]))

EvalOrbitals(pos, spins) ==
  LET nelec == spins[1] + spins[2]
      leading_dims == Front(pos.shape)
  IN IF ~IsNdarray(pos.kind) /\ ~HasCopy(pos.kind)
       THEN OrbRet("InputTypeError", EmptyArr, EmptyArr)
     ELSE IF ~HasShape(pos.kind)
       THEN OrbRet("AttributeError", EmptyArr, EmptyArr)
     ELSE IF ~ReshapeShape(Size(pos), <<-1, 3>>).ok
       THEN OrbRet("ReshapeError", EmptyArr, EmptyArr)
     ELSE IF ~ReshapeShape(ReshapeShape(Size(pos), <<-1, 3>>).shape[1] * NBasis,
                           leading_dims \o <<nelec, -1>>).ok
       THEN OrbRet("ReshapeError", EmptyArr, EmptyArr)
     ELSE EvalOrbitalsBody(pos, spins)

-----------------------------------------------------------------------------
\* eval_slater

Sgn(x) == IF x > 0 THEN 1 ELSE IF x < 0 THEN -1 ELSE 0

Abs(x) == IF x < 0 THEN -x ELSE x

DropAt(s, i) == [k \in 1..(Len(s) - 1) |-> IF k < i THEN s[k] ELSE s[k + 1]]

\* determinant of the square matrix m[rows, cols], by expansion along the
\* first row; the determinant of the empty matrix is 1
RECURSIVE DetMinor(_, _, _, _)
DetMinor(m, rows, cols, j) ==
  IF rows = <<>> THEN 1
  ELSE IF j > Len(cols) THEN 0
  ELSE (IF j % 2 = 1 THEN 1 ELSE -1) * m[rows[1]][cols[j]]
         * DetMinor(m, Tail(rows), DropAt(cols, j), 1)
       + DetMinor(m, rows, cols, j + 1)

Det(m, n) ==
  IF n = 0 THEN 1 ELSE DetMinor(m, [i \in 1..n |-> i], [i \in 1..n |-> i], 1)

\* matrix number l (from 0) of a stack of n x n matrices
MatrixAt(a, l, n) ==
  [i \in 1..n |-> [j \in 1..n |-> a.flat[(l * n + (i - 1)) * n + j]]]

\* np.linalg.slogdet over the last two axes: the sign and the log-magnitude
SlogdetSign(a) ==
  LET rank == Len(a.shape)
      n == a.shape[rank]
      lead == SubSeq(a.shape, 1, rank - 2)
  IN Arr(lead, [l \in 1..Prod(lead) |-> Sgn(Det(MatrixAt(a, l - 1, n), n))])

SlogdetLogAbs(a) ==
  LET rank == Len(a.shape)
      n == a.shape[rank]
      lead == SubSeq(a.shape, 1, rank - 2)
  IN Arr(lead, [l \in 1..Prod(lead) |-> Abs(Det(MatrixAt(a, l - 1, n), n))])

\* the sum of two log-magnitudes
LogAdd(a, b) == a * b

SlaterRet(err, sign, logabs) == [err |-> err, sign |-> sign, logabs |-> logabs]

SignProduct(sa, sb) ==
  Arr(sa.shape, [l \in DOMAIN sa.flat |-> sa.flat[l] * sb.flat[l]])

EvalSlater(pos, spins) ==
  LET matrices == EvalOrbitals(pos, spins)
      sign_alpha == SlogdetSign(matrices.alpha)
      sign_beta == SlogdetSign(matrices.beta)
      log_abs_wf_alpha == SlogdetLogAbs(matrices.alpha)
      log_abs_wf_beta == SlogdetLogAbs(matrices.beta)
  IN IF matrices.err # "none"
       THEN SlaterRet(matrices.err, EmptyArr, EmptyArr)
       ELSE SlaterRet("none", SignProduct(sign_alpha, sign_beta),
                      Arr(log_abs_wf_alpha.shape,
                          [l \in DOMAIN log_abs_wf_alpha.flat |->
                             LogAdd(log_abs_wf_alpha.flat[l],
                                    log_abs_wf_beta.flat[l])]))



-----------------------------------------------------------------------------
\* Floats of the training path: an integer in -FMax..FMax, or NaN

NaN == FMax + 1

F(v) == IF v > FMax \/ v < -FMax THEN NaN ELSE v

FAdd(a, b) == IF a = NaN \/ b = NaN THEN NaN ELSE F(a + b)

FSub(a, b) == IF a = NaN \/ b = NaN THEN NaN ELSE F(a - b)

FMul(a, b) == IF a = NaN \/ b = NaN THEN NaN ELSE F(a * b)

\* a / b; 0 / 0 and x / 0 are not finite
FDiv(a, b) == IF a = NaN \/ b = NaN \/ b = 0 THEN NaN ELSE F(a \div b)

\* jnp.exp, to base 2 and rounded to an integer
FExp(a) == IF a = NaN THEN NaN ELSE IF a < 0 THEN 0 ELSE IF a > FMax THEN NaN ELSE F(Pow(2, a))

FSgn(a) == IF a = NaN THEN NaN ELSE Sgn(a)

RECURSIVE FSum(_)
FSum(s) == IF s = <<>> THEN 0 ELSE FAdd(Head(s), FSum(Tail(s)))

\* jnp.mean: the mean of no elements is not finite
FMean(s) == FDiv(FSum(s), Len(s))

-----------------------------------------------------------------------------
\* loss_fn: the target of full-determinant mode

Zeros(shape) == Arr(shape, [k \in 1..Prod(shape) |-> 0])

\* element (b, i, j), counted from 1, of a 3-d array
At3(a, b, i, j) == a.flat[((b - 1) * a.shape[2] + (i - 1)) * a.shape[3] + j]

\* jnp.concatenate((a, b), axis=-1) of 3-d arrays
ConcatCols(a, b) ==
  LET B == a.shape[1]
      R == a.shape[2]
      C == a.shape[3] + b.shape[3]
  IN Arr(<<B, R, C>>,
         [k \in 1..(B * R * C) |->
            LET l == ((k - 1) \div (R * C)) + 1
                i == (((k - 1) % (R * C)) \div C) + 1
                j == ((k - 1) % C) + 1
            IN IF j <= a.shape[3] THEN At3(a, l, i, j)
                                  ELSE At3(b, l, i, j - a.shape[3])])

\* jnp.concatenate((a, b), axis=-2) of 3-d arrays
ConcatRows(a, b) ==
  LET B == a.shape[1]
      R == a.shape[2] + b.shape[2]
      C == a.shape[3]
  IN Arr(<<B, R, C>>,
         [k \in 1..(B * R * C) |->
            LET l == ((k - 1) \div (R * C)) + 1
                i == (((k - 1) % (R * C)) \div C) + 1
                j == ((k - 1) % C) + 1
            IN IF i <= a.shape[2] THEN At3(a, l, i, j)
                                  ELSE At3(b, l, i - a.shape[2], j)])

\* the blocks placed off the diagonal
FullDetTargetSwapped(tgt) ==
  LET ndet == tgt[1].shape[1]
      na == tgt[1].shape[2]
      nb == tgt[2].shape[2]
  IN ConcatRows(ConcatCols(Zeros(<<ndet, na, nb>>), tgt[1]),
                ConcatCols(tgt[2], Zeros(<<ndet, nb, na>>)))

\* the block matrix built from target = (alpha, beta) when full_det is set
FullDetTarget(tgt) ==
  LET ndet == tgt[1].shape[1]
      na == tgt[1].shape[2]
      nb == tgt[2].shape[2]
  IN ConcatRows(ConcatCols(tgt[1], Zeros(<<ndet, na, nb>>)),
                ConcatCols(Zeros(<<ndet, nb, na>>), tgt[2]))


-----------------------------------------------------------------------------
\* The network, its envelopes, the optimizer and the sampler

Workers == 1..NumWorkers

\* spin configuration of the pretrained system
Electrons == <<1, 1>>

NElec == Electrons[1] + Electrons[2]

\* walker l (from 0) of a position array: its electrons' points
WalkerAt(a, l) ==
  LET n3 == a.shape[Len(a.shape)]
  IN [e \in 1..(n3 \div 3) |->
        <<a.flat[l * n3 + 3 * (e - 1) + 1], a.flat[l * n3 + 3 * (e - 1) + 2],
          a.flat[l * n3 + 3 * (e - 1) + 3]>>]

RECURSIVE SumX(_)
SumX(walker) == IF walker = <<>> THEN 0 ELSE Head(walker)[1] + SumX(Tail(walker))

\* batch_network for one walker: the log-amplitude of the wavefunction
Network(p, walker) == FMul(p.w, 1 + SumX(walker))

\* networks.fermi_net_orbitals: entry (i, j) of determinant d of the orbital
\* matrix of channel c (0: the only matrix of full-determinant mode, else the
\* spin channel), for the electrons of one walker
NetworkOrbital(p, walker, fd, c, d, i, j, spins) ==
  LET e == IF fd \/ c = 1 THEN i ELSE spins[1] + i
      mo == IF fd
              THEN IF j <= spins[1] THEN MoValue(0, j, walker[e])
                                    ELSE MoValue(1, j - spins[1], walker[e])
              ELSE MoValue(c - 1, j, walker[e])
  IN FAdd(FMul(p.w, mo), d - 1)

\* networks.exact_cusp_envelope and networks.output_envelope on one walker
ExactCuspEnvelope(pe, walker) == FMul(2, FAdd(pe, SumX(walker)))

OutputEnvelope(pe, walker) == FMul(2, pe)

\* the closure chosen for envelope_fn, applied
EnvelopeFn(fn, pe, walker) ==
  IF fn = "exact_cusp" THEN ExactCuspEnvelope(pe, walker)
  ELSE IF fn = "output" THEN OutputEnvelope(pe, walker)
  ELSE 0

\* a selection that falls back to the output envelope
SelectEnvelopeOutputDefault(etype) ==
  IF etype = "exact_cusp" THEN "exact_cusp" ELSE "output"

\* which closure the driver binds to envelope_fn
SelectEnvelope(etype) ==
  IF etype = "exact_cusp" THEN "exact_cusp"
  ELSE IF etype = "output" THEN "output"
  ELSE "zero"

ParamKeys == {"w", "envelope"}

\* optimizer.init
OptInit(p) == [count |-> 0, mu |-> [k \in ParamKeys |-> 0]]

\* optimizer.update: the first moment accumulates the gradient, the update
\* is a unit step against its sign
OptUpdate(g, state, p) ==
  LET mu == [k \in ParamKeys |-> FAdd(state.mu[k], g[k])]
  IN [updates |-> [k \in ParamKeys |-> FSub(0, FSgn(mu[k]))],
      state |-> [count |-> state.count + 1, mu |-> mu]]

\* optax.apply_updates
ApplyUpdates(p, updates) == [k \in ParamKeys |-> FAdd(p[k], updates[k])]

\* log of a uniform random number: negative, possibly -inf
NegInf == -(FMax + 1)

RndVals == {-1, NegInf}

\* mcmc.mh_update on one walker: x2 the proposal, rnd the log of the uniform
\* draw; the move is accepted when lp_2 - lp_1 > rnd
MhAccept(p, x2, lp_1, rnd) ==
  LET lp_2 == FMul(2, Network(p, x2))
      ratio == FSub(lp_2, lp_1)
  IN ratio # NaN /\ ratio > rnd


-----------------------------------------------------------------------------
\* make_pretrain_step: the pieces of pretrain_step on one worker

\* shard w of an array split along its first axis (what pmap hands worker w)
ShardOf(a, w) ==
  LET sz == Prod(Tail(a.shape))
  IN [a EXCEPT !.shape = Tail(a.shape),
               !.flat = SubSeq(a.flat, (w - 1) * sz + 1, w * sz)]

RECURSIVE ConcatFlats(_, _)
ConcatFlats(shards, w) ==
  IF w > NumWorkers THEN <<>> ELSE shards[w].flat \o ConcatFlats(shards, w + 1)

\* the per-worker results of a pmapped call, stacked along a new first axis
Unshard(shards) ==
  [shards[1] EXCEPT !.shape = <<NumWorkers>> \o shards[1].shape,
                    !.flat = ConcatFlats(shards, 1)]

\* env of loss_fn, one factor per walker of the batch
LossEnv(x, p, tgt, fn) ==
  LET n == tgt[1].shape[Len(tgt[1].shape)]
             + tgt[2].shape[Len(tgt[2].shape)]
  IN [b \in 1..x.shape[1] |->
        FExp(FDiv(EnvelopeFn(fn, p.envelope, WalkerAt(x, b - 1)), n))]

\* jnp.mean((t[:, None, ...] - env * o)**2) for the orbitals of channel c
MeanSquare(tm, x, p, env, fd, c) ==
  LET R == tm.shape[2]
      C == tm.shape[3]
  IN FMean([k \in 1..(tm.shape[1] * NDet * R * C) |->
              LET b == ((k - 1) \div (NDet * R * C)) + 1
                  d == (((k - 1) % (NDet * R * C)) \div (R * C)) + 1
                  i == (((k - 1) % (R * C)) \div C) + 1
                  j == ((k - 1) % C) + 1
                  diff == FSub(At3(tm, b, i, j),
                               FMul(env[b],
                                    NetworkOrbital(p, WalkerAt(x, b - 1), fd,
                                                   c, d, i, j, Electrons)))
              IN FMul(diff, diff)])

\* loss_fn up to its pmean: the loss of one worker's batch
LossFn(x, p, tgt, fn, fd) ==
  LET env == LossEnv(x, p, tgt, fn)
  IN IF fd
       THEN MeanSquare(FullDetTarget(tgt), x, p, env, TRUE, 0)
       ELSE FAdd(MeanSquare(tgt[1], x, p, env, FALSE, 1),
                 MeanSquare(tgt[2], x, p, env, FALSE, 2))

\* the gradient jax.value_and_grad gives for argnums=1, as the forward
\* difference of the worker's loss in each parameter
GradFn(x, p, tgt, fn, fd) ==
  [k \in ParamKeys |->
     FSub(LossFn(x, [p EXCEPT ![k] = FAdd(p[k], 1)], tgt, fn, fd),
          LossFn(x, p, tgt, fn, fd))]

\* jax.lax.pmean of one scalar per worker
Pmean(vals) == FDiv(FSum([w \in 1..NumWorkers |-> vals[w]]), NumWorkers)

\* the worker's own gradient, without the reduction
PmeanGradLocalOnly(grads, w) == grads[w]

\* jax.lax.pmean of the gradient tree, as worker w receives it
PmeanGradOf(grads, w) ==
  [k \in ParamKeys |-> Pmean([v \in Workers |-> grads[v][k]])]

-----------------------------------------------------------------------------
\* Calls of eval_orbitals and eval_slater on their own

Spins == (0..MaxSpin) \X (0..MaxSpin)

Leads == {<<>>} \cup {<<b>> : b \in 0..MaxBatch}
           \cup {<<d, b>> : d \in 1..MaxDev, b \in 0..MaxBatch}

Rot(base, l) ==
  [i \in 1..Len(base) |-> base[((i - 1 + l) % Len(base)) + 1]]

\* a position array of shape lead + (nelec*3,): sample l holds the electrons
\* of base, rotated by l places
PosArray(kind, lead, base) ==
  LET n == Len(base)
  IN [kind |-> kind, shape |-> lead \o <<3 * n>>,
      flat |-> [k \in 1..(Prod(lead) * 3 * n) |->
                  LET l == (k - 1) \div (3 * n)
                      e == ((k - 1) % (3 * n)) \div 3
                      c == (k - 1) % 3
                  IN Rot(base, l)[e + 1][c + 1]]]

NonArray(kind) == [kind |-> kind, shape |-> <<>>, flat |-> <<>>]

\* how the electrons of a sample are placed on the points: all on one point,
\* on successive points, or in pairs on successive points
Patterns == {"same", "successive", "paired"}

PlaceAt(pat, i, b) ==
  IF pat = "same" THEN b
  ELSE IF pat = "successive" THEN (i + b) % (MaxCoord + 1)
  ELSE ((i \div 2) + b) % (MaxCoord + 1)

\* the electron positions of one sample of n electrons
Bases(n) ==
  {[i \in 1..n |-> CHOOSE r \in Points : r[1] = PlaceAt(pat, i, b)] :
     pat \in Patterns, b \in 0..MaxCoord}

NoOrbRet == OrbRet("pending", EmptyArr, EmptyArr)

NoSlaterRet == SlaterRet("pending", EmptyArr, EmptyArr)

\* the variables of the other calls, while they are not in use
TgtIdle == f_pc = "off" /\ f_target = <<EmptyArr, EmptyArr>> /\ f_full = EmptyArr

\* values of the driver's locals before they are assigned
NoParams == [k \in ParamKeys |-> 0]

NoData == [kind |-> "none", shape |-> <<0>>, flat |-> <<>>]

NoTarget == OrbRet("pending", EmptyArr, EmptyArr)

NoRet == [returned |-> FALSE, params |-> [w \in Workers |-> NoParams], data |-> NoData]

LocalsUnset ==
  /\ envelope_fn = "unset"
  /\ opt_state_pt = [w \in Workers |-> OptInit(NoParams)]
  /\ logprob = [w \in Workers |-> <<>>]
  /\ sharded_key = 0
  /\ t = 0
  /\ target = NoTarget
  /\ loss = [w \in Workers |-> 0]
  /\ logged = <<>>
  /\ ret = NoRet
  /\ steps = 0
  /\ wpc = [w \in Workers |-> "idle"]
  /\ w_data = [w \in Workers |-> NoData]
  /\ w_params = [w \in Workers |-> NoParams]
  /\ w_state = [w \in Workers |-> OptInit(NoParams)]
  /\ w_logprob = [w \in Workers |-> <<>>]
  /\ w_env = [w \in Workers |-> <<>>]
  /\ result = [w \in Workers |-> 0]
  /\ loss_val = [w \in Workers |-> 0]
  /\ search_direction = [w \in Workers |-> NoParams]
  /\ w_accepts = [w \in Workers |-> 0]
  /\ mh_calls = [w \in Workers |-> 0]

DrvIdle ==
  /\ pc = "off"
  /\ arg_params = NoParams
  /\ arg_data = NoData
  /\ iterations = 0
  /\ envelope_type = "full"
  /\ full_det = FALSE
  /\ params = [w \in Workers |-> NoParams]
  /\ data = NoData
  /\ LocalsUnset

OrbIdle ==
  /\ o_pc = "off"
  /\ o_pos = NonArray("none")
  /\ o_spins = <<0, 0>>
  /\ o_ret = NoOrbRet
  /\ o_slater = NoSlaterRet

OrbInit ==
  /\ o_pc = "new"
  /\ o_spins \in Spins
  /\ \/ \E kind \in PosKinds \ ArrayKinds : o_pos = NonArray(kind)
     \/ \E kind \in ArrayKinds, lead \in Leads,
           base \in Bases(o_spins[1] + o_spins[2]) :
          o_pos = PosArray(kind, lead, base)
  /\ o_ret = NoOrbRet
  /\ o_slater = NoSlaterRet
  /\ TgtIdle
  /\ DrvIdle

CallEvalOrbitals ==
  /\ o_pc = "new"
  /\ o_ret' = EvalOrbitals(o_pos, o_spins)
  /\ o_pc' = "orbitals"
  /\ UNCHANGED <<o_pos, o_spins, o_slater>>
  /\ UNCHANGED <<tgtVars, argVars, drvVars, stepVars>>

CallEvalSlater ==
  /\ o_pc = "new"
  /\ o_slater' = EvalSlater(o_pos, o_spins)
  /\ o_pc' = "slater"
  /\ UNCHANGED <<o_pos, o_spins, o_ret>>
  /\ UNCHANGED <<tgtVars, argVars, drvVars, stepVars>>

OrbNext == CallEvalOrbitals \/ CallEvalSlater

SpecOrb == OrbInit /\ [][OrbNext]_vars

-----------------------------------------------------------------------------
\* Properties of eval_orbitals and eval_slater

\* C5: every position value that is not a numeric array (a list, a tuple, a
\* scalar, None) makes eval_orbitals fail with the input-type error
\* 'Input must be either NumPy or JAX array.'
C5_InputTypeError ==
  (o_pc = "orbitals" /\ o_pos.kind \notin ArrayKinds)
    => o_ret.err = "InputTypeError"

\* C6: for every position array of shape (..., (n_up+n_down)*3) of at least
\* one electron, eval_orbitals returns alpha of shape (..., n_up, n_up) and
\* beta of shape (..., n_down, n_down), also when a leading dimension is 0
C6_OrbitalShapes ==
  (o_pc = "orbitals" /\ o_pos.kind \in ArrayKinds
     /\ o_spins[1] + o_spins[2] >= 1)
    => /\ o_ret.err = "none"
       /\ o_ret.alpha.shape = Front(o_pos.shape) \o <<o_spins[1], o_spins[1]>>
       /\ o_ret.beta.shape = Front(o_pos.shape) \o <<o_spins[2], o_spins[2]>>

\* the position array with electrons i and j exchanged in every sample
SwapElectrons(pos, i, j) ==
  LET n3 == pos.shape[Len(pos.shape)]
  IN [pos EXCEPT !.flat =
        [k \in DOMAIN pos.flat |->
           LET l == (k - 1) \div n3
               e == (((k - 1) % n3) \div 3) + 1
               c == (k - 1) % 3
               e2 == IF e = i THEN j ELSE IF e = j THEN i ELSE e
           IN pos.flat[l * n3 + (e2 - 1) * 3 + c + 1]]]

\* pairs of distinct electrons of the same spin
SameSpinPairs(spins) ==
  {p \in (1..(spins[1] + spins[2])) \X (1..(spins[1] + spins[2])) :
     /\ p[1] < p[2]
     /\ (p[2] <= spins[1] \/ p[1] > spins[1])}

\* C9: eval_slater returns sign = sign(det alpha) * sign(det beta), in
\* {-1, 0, 1}, and the sum of the two log-magnitudes; exchanging two electrons
\* of the same spin flips the sign and keeps the log-magnitude
C9_SlaterAntisymmetry ==
  (o_pc = "slater" /\ o_slater.err = "none")
    => LET m == EvalOrbitals(o_pos, o_spins)
           da(l) == Det(MatrixAt(m.alpha, l - 1, o_spins[1]), o_spins[1])
           db(l) == Det(MatrixAt(m.beta, l - 1, o_spins[2]), o_spins[2])
       IN /\ o_slater.sign.shape = Front(o_pos.shape)
          /\ \A l \in DOMAIN o_slater.sign.flat :
               /\ o_slater.sign.flat[l] \in {-1, 0, 1}
               /\ o_slater.sign.flat[l] = Sgn(da(l)) * Sgn(db(l))
               /\ o_slater.logabs.flat[l] = LogAdd(Abs(da(l)), Abs(db(l)))
          /\ \A p \in SameSpinPairs(o_spins) :
               LET sw == EvalSlater(SwapElectrons(o_pos, p[1], p[2]), o_spins)
               IN /\ sw.err = "none"
                  /\ sw.logabs = o_slater.logabs
                  /\ \A l \in DOMAIN o_slater.sign.flat :
                       sw.sign.flat[l] = -o_slater.sign.flat[l]

\* a Slater determinant of both signs' worth: a sample of sign -1 of a system
\* with two electrons of each spin, so that both channels have a pair to swap
C9_Witness ==
  /\ o_pc = "slater"
  /\ o_slater.err = "none"
  /\ o_spins[1] >= 2
  /\ o_spins[2] >= 2
  /\ \E l \in DOMAIN o_slater.sign.flat : o_slater.sign.flat[l] = -1

-----------------------------------------------------------------------------
\* The target of loss_fn built on its own, from arbitrary reference matrices

RowSeeds == {0, 1}

\* a stack of ndet n x n matrices drawn from one seed per row: entry (i, j)
\* of matrix l is seed[i] * j - 1 + (l - 1), so that negative, zero and
\* positive entries occur and every sample differs
Stack(ndet, n, seed) ==
  Arr(<<ndet, n, n>>,
      [k \in 1..(ndet * n * n) |->
         LET l == (k - 1) \div (n * n)
             i == (((k - 1) % (n * n)) \div n) + 1
             j == ((k - 1) % n) + 1
         IN seed[i] * j - 1 + l])

TgtInit ==
  /\ f_pc = "new"
  /\ \E ndet \in 1..MaxBatch, na \in 0..MaxSpin, nb \in 0..MaxSpin :
       \E ba \in [1..na -> RowSeeds], bb \in [1..nb -> RowSeeds] :
         f_target = <<Stack(ndet, na, ba), Stack(ndet, nb, bb)>>
  /\ f_full = EmptyArr
  /\ OrbIdle
  /\ DrvIdle

BuildFullDetTarget ==
  /\ f_pc = "new"
  /\ f_full' = FullDetTarget(f_target)
  /\ f_pc' = "built"
  /\ UNCHANGED f_target
  /\ UNCHANGED <<orbVars, argVars, drvVars, stepVars>>

TgtNext == BuildFullDetTarget

SpecTgt == TgtInit /\ [][TgtNext]_vars

\* C7: in full-determinant mode the target is (n_up+n_down) x (n_up+n_down)
\* per sample and exactly block-diagonal: top-left block the alpha target,
\* bottom-right block the beta target, both off-diagonal blocks zero
C7_BlockDiagonal ==
  f_pc = "built"
    => LET a == f_target[1]
           b == f_target[2]
           na == a.shape[2]
           nb == b.shape[2]
       IN /\ f_full.shape = <<a.shape[1], na + nb, na + nb>>
          /\ Len(f_full.flat) = a.shape[1] * (na + nb) * (na + nb)
          /\ \A l \in 1..a.shape[1], i \in 1..(na + nb), j \in 1..(na + nb) :
               At3(f_full, l, i, j) =
                 IF i <= na /\ j <= na THEN At3(a, l, i, j)
                 ELSE IF i > na /\ j > na THEN At3(b, l, i - na, j - na)
                 ELSE 0

\* a target built from two samples of two electrons of each spin, with
\* non-zero entries in both blocks
C7_Witness ==
  /\ f_pc = "built"
  /\ f_target[1].shape = <<2, 2, 2>>
  /\ f_target[2].shape = <<2, 2, 2>>
  /\ At3(f_full, 1, 1, 2) = 1
  /\ At3(f_full, 2, 4, 3) = 1
  /\ At3(f_full, 1, 1, 3) = 0

-----------------------------------------------------------------------------
\* pretrain_hartree_fock and the pretrain_step it runs on every worker

\* the settings the driver is run with: envelope_type, full_det and the
\* initial weight of the network
Settings ==
  {<<"full", FALSE, 0>>, <<"full", TRUE, 0>>, <<"full", FALSE, 3>>,
   <<"exact_cusp", FALSE, 0>>, <<"output", TRUE, 0>>, <<"isotropic", FALSE, 3>>}

\* every worker holds a batch of one walker
LocalBatch == <<1>>

NumWalkers == LocalBatch[1]

PointAt(c) == <<c, 1, 2 * c>>

\* the configurations the walkers of the driver start from: each electron at
\* one of two points
Walkers == [1..NElec -> {PointAt(0), PointAt(1)}]

\* the move mcmc.mh_update proposes for a walker: its first electron displaced
\* to the other point
Moves == {"first"}

Propose(walker, mv) ==
  [e \in 1..NElec |->
     IF mv = "all" \/ e = 1 THEN PointAt(1 - walker[e][1]) ELSE walker[e]]

\* 2 * batch_network(params, data) on one worker's batch
LogProbOf(p, x) == [b \in 1..x.shape[1] |-> FMul(2, Network(p, WalkerAt(x, b - 1)))]

\* a loop that stops at the first non-finite loss
LoopGuardFiniteLoss(i, n, losses) ==
  i < n /\ (IF losses = <<>> THEN TRUE ELSE losses[Len(losses)] # NaN)

\* for t in range(iterations)
LoopGuard(i, n, losses) == i < n

\* the target of the first iteration kept for the later ones
TargetAtFirstPositions(x, spins, i, old) ==
  IF i = 0 THEN EvalOrbitals(x, spins) ELSE old

\* the target of iteration i
TargetAt(x, spins, i, old) == EvalOrbitals(x, spins)

\* the sampler advanced with the parameters the step received
MhParamsIncoming(incoming, updated) == incoming

\* the parameters handed to mcmc.mh_update
MhParams(incoming, updated) == updated

Init ==
  /\ pc = "setup"
  /\ iterations \in 0..MaxIter
  /\ \E s \in Settings :
       /\ envelope_type = s[1]
       /\ full_det = s[2]
       /\ arg_params = [k \in ParamKeys |-> IF k = "w" THEN s[3] ELSE 0]
  /\ \E base \in Walkers :
       arg_data = PosArray("jax_array", <<NumWorkers>> \o LocalBatch, base)
  /\ params = [w \in Workers |-> arg_params]
  /\ data = arg_data
  /\ LocalsUnset
  /\ OrbIdle
  /\ TgtIdle

\* lines 214-253: the closures, the optimizer state, the first log-probability
Setup ==
  /\ pc = "setup"
  /\ envelope_fn' = SelectEnvelope(envelope_type)
  /\ opt_state_pt' = [w \in Workers |-> OptInit(params[w])]
  /\ logprob' = [w \in Workers |-> LogProbOf(params[w], ShardOf(data, w))]
  /\ pc' = "loop"
  /\ UNCHANGED <<params, data, sharded_key, t, target, loss, logged, ret, steps>>
  /\ UNCHANGED <<orbVars, tgtVars, argVars, stepVars>>

\* lines 255-258: one more iteration: the target, the keys, the pmapped call
IterStart ==
  /\ pc = "loop"
  /\ LoopGuard(t, iterations, logged)
  /\ target' = TargetAt(data, Electrons, t, target)
  /\ sharded_key' = sharded_key + 1
  /\ IF target'.err # "none"
       THEN /\ pc' = "failed"
            /\ UNCHANGED <<steps, stepVars>>
       ELSE /\ pc' = "step"
            /\ steps' = steps + 1
            /\ wpc' = [w \in Workers |-> "loss"]
            /\ w_data' = [w \in Workers |-> ShardOf(data, w)]
            /\ w_params' = params
            /\ w_state' = opt_state_pt
            /\ w_logprob' = logprob
            /\ mh_calls' = [w \in Workers |-> 0]
            /\ UNCHANGED <<w_env, result, loss_val, search_direction, w_accepts>>
  /\ UNCHANGED <<envelope_fn, params, opt_state_pt, data, logprob, t, loss, logged, ret>>
  /\ UNCHANGED <<orbVars, tgtVars, argVars>>

WorkerTarget(w) == <<ShardOf(target.alpha, w), ShardOf(target.beta, w)>>

\* lines 145-164: the worker's own loss
LossLocal(w) ==
  /\ pc = "step"
  /\ wpc[w] = "loss"
  /\ w_env' = [w_env EXCEPT
                 ![w] = LossEnv(w_data[w], w_params[w], WorkerTarget(w), envelope_fn)]
  /\ result' = [result EXCEPT
                  ![w] = LossFn(w_data[w], w_params[w], WorkerTarget(w),
                                envelope_fn, full_det)]
  /\ wpc' = [wpc EXCEPT ![w] = "pmean_loss"]
  /\ UNCHANGED <<w_data, w_params, w_state, w_logprob, loss_val,
                 search_direction, w_accepts, mh_calls>>
  /\ UNCHANGED <<orbVars, tgtVars, argVars, drvVars>>

\* line 165: the loss averaged over the workers, once all of them hold theirs
PmeanLoss ==
  /\ pc = "step"
  /\ \A w \in Workers : wpc[w] = "pmean_loss"
  /\ loss_val' = [w \in Workers |-> Pmean(result)]
  /\ wpc' = [w \in Workers |-> "grad"]
  /\ UNCHANGED <<w_data, w_params, w_state, w_logprob, w_env, result,
                 search_direction, w_accepts, mh_calls>>
  /\ UNCHANGED <<orbVars, tgtVars, argVars, drvVars>>

\* lines 167-168: the worker's own gradient
GradLocal(w) ==
  /\ pc = "step"
  /\ wpc[w] = "grad"
  /\ search_direction' =
       [search_direction EXCEPT
          ![w] = GradFn(w_data[w], w_params[w], WorkerTarget(w), envelope_fn, full_det)]
  /\ wpc' = [wpc EXCEPT ![w] = "pmean_grad"]
  /\ UNCHANGED <<w_data, w_params, w_state, w_logprob, w_env, result, loss_val,
                 w_accepts, mh_calls>>
  /\ UNCHANGED <<orbVars, tgtVars, argVars, drvVars>>

\* lines 169-170: the gradient averaged over the workers
PmeanGrad ==
  /\ pc = "step"
  /\ \A w \in Workers : wpc[w] = "pmean_grad"
  /\ search_direction' = [w \in Workers |-> PmeanGradOf(search_direction, w)]
  /\ wpc' = [w \in Workers |-> "update"]
  /\ UNCHANGED <<w_data, w_params, w_state, w_logprob, w_env, result, loss_val,
                 w_accepts, mh_calls>>
  /\ UNCHANGED <<orbVars, tgtVars, argVars, drvVars>>

\* lines 171-172: the optimizer's update, applied
OptimizerUpdate(w) ==
  /\ pc = "step"
  /\ wpc[w] = "update"
  /\ LET u == OptUpdate(search_direction[w], w_state[w], w_params[w])
     IN /\ w_state' = [w_state EXCEPT ![w] = u.state]
        /\ w_params' = [w_params EXCEPT ![w] = ApplyUpdates(w_params[w], u.updates)]
  /\ wpc' = [wpc EXCEPT ![w] = "mcmc"]
  /\ UNCHANGED <<w_data, w_logprob, w_env, result, loss_val, search_direction,
                 w_accepts, mh_calls>>
  /\ UNCHANGED <<orbVars, tgtVars, argVars, drvVars>>

\* lines 173-174: one Metropolis-Hastings move of every walker of the worker
MhUpdate(w) ==
  /\ pc = "step"
  /\ wpc[w] = "mcmc"
  /\ \E mv \in [1..NumWalkers -> Moves], rnd \in [1..NumWalkers -> RndVals] :
       LET p == MhParams(params[w], w_params[w])
           x2 == [b \in 1..NumWalkers |-> Propose(WalkerAt(w_data[w], b - 1), mv[b])]
           n3 == 3 * NElec
           cond == [b \in 1..NumWalkers |->
                      MhAccept(p, x2[b], w_logprob[w][b], rnd[b])]
       IN /\ w_data' =
               [w_data EXCEPT ![w].flat =
                  [k \in 1..(NumWalkers * n3) |->
                     LET b == ((k - 1) \div n3) + 1
                         e == (((k - 1) % n3) \div 3) + 1
                         c == ((k - 1) % 3) + 1
                     IN IF cond[b] THEN x2[b][e][c] ELSE w_data[w].flat[k]]]
          /\ w_logprob' =
               [w_logprob EXCEPT ![w] =
                  [b \in 1..NumWalkers |->
                     IF cond[b] THEN FMul(2, Network(p, x2[b]))
                                ELSE w_logprob[w][b]]]
          /\ w_accepts' =
               [w_accepts EXCEPT ![w] =
                  0 + Cardinality({b \in 1..NumWalkers : cond[b]})]
  /\ mh_calls' = [mh_calls EXCEPT ![w] = @ + 1]
  /\ wpc' = [wpc EXCEPT ![w] = "ret"]
  /\ UNCHANGED <<w_params, w_state, w_env, result, loss_val, search_direction>>
  /\ UNCHANGED <<orbVars, tgtVars, argVars, drvVars>>

\* lines 258-260: the step's results bound to the driver's names, the log line
Join ==
  /\ pc = "step"
  /\ \A w \in Workers : wpc[w] = "ret"
  /\ data' = Unshard(w_data)
  /\ params' = w_params
  /\ opt_state_pt' = w_state
  /\ loss' = loss_val
  /\ logprob' = w_logprob
  /\ logged' = Append(logged, loss_val[1])
  /\ t' = t + 1
  /\ wpc' = [w \in Workers |-> "idle"]
  /\ pc' = "loop"
  /\ UNCHANGED <<envelope_fn, sharded_key, target, ret, steps>>
  /\ UNCHANGED <<w_data, w_params, w_state, w_logprob, w_env, result, loss_val,
                 search_direction, w_accepts, mh_calls>>
  /\ UNCHANGED <<orbVars, tgtVars, argVars>>

\* line 261
Return ==
  /\ pc = "loop"
  /\ ~LoopGuard(t, iterations, logged)
  /\ ret' = [returned |-> TRUE, params |-> params, data |-> data]
  /\ pc' = "done"
  /\ UNCHANGED <<envelope_fn, params, opt_state_pt, data, logprob, sharded_key,
                 t, target, loss, logged, steps>>
  /\ UNCHANGED <<orbVars, tgtVars, argVars, stepVars>>

Next ==
  \/ Setup
  \/ IterStart
  \/ \E w \in Workers : LossLocal(w)
  \/ PmeanLoss
  \/ \E w \in Workers : GradLocal(w)
  \/ PmeanGrad
  \/ \E w \in Workers : OptimizerUpdate(w)
  \/ \E w \in Workers : MhUpdate(w)
  \/ Join
  \/ Return

Spec == Init /\ [][Next]_vars

-----------------------------------------------------------------------------
\* Properties of the driver and of pretrain_step

\* the loss and the gradient of worker v at what the step was called with
IncomingLoss(v) ==
  LossFn(ShardOf(data, v), params[v], WorkerTarget(v), envelope_fn, full_det)

IncomingGrad(v) ==
  GradFn(ShardOf(data, v), params[v], WorkerTarget(v), envelope_fn, full_det)

\* C1: at the start of the loop and after every pretrain_step, the
\* log-probability held for every walker is 2 * batch_network at the current
\* parameters and the walker's current position (stated here for finite
\* parameters, where it fails already)
C1_LogprobConsistent ==
  pc = "loop"
    => \A w \in Workers :
         params[w]["w"] # NaN
           => logprob[w] = LogProbOf(params[w], ShardOf(data, w))

\* C2: the workers start with the same parameters and optimizer state, and
\* after every pretrain_step all of them hold the same parameters
C2_WorkersInSync ==
  /\ pc \in {"loop", "done"}
       => \A v, w \in Workers : params[v] = params[w]
  /\ (pc = "step" /\ \A w \in Workers : wpc[w] \in {"mcmc", "ret"})
       => \A v, w \in Workers : w_params[v] = w_params[w]

\* a step in which the workers' own gradients differ and the parameters move
C2_Witness ==
  /\ pc = "step"
  /\ \A w \in Workers : wpc[w] = "ret"
  /\ IncomingGrad(1) # IncomingGrad(2)
  /\ IncomingGrad(1)["w"] # NaN
  /\ IncomingGrad(2)["w"] # NaN
  /\ w_params[1] # params[1]

\* C3: within one pretrain_step the loss and the gradient are taken at the
\* incoming walkers and parameters, the gradient is averaged over the workers
\* before the optimizer's update, the sampler moves once, after the update,
\* with the new parameters, the incoming log-probability and 0 accepted moves
\* counted so far, and the loss returned is the one computed before the update
C3_StepOrder ==
  pc = "step" =>
    LET losses == [v \in Workers |-> IncomingLoss(v)]
        grads == [v \in Workers |-> IncomingGrad(v)]
        mean_loss == Pmean(losses)
        mean_grad == [k \in ParamKeys |-> Pmean([v \in Workers |-> grads[v][k]])]
    IN
    \A w \in Workers :
      /\ wpc[w] \notin {"idle", "loss"} => result[w] = losses[w]
      /\ wpc[w] \in {"grad", "pmean_grad", "update", "mcmc", "ret"}
           => loss_val[w] = mean_loss
      /\ wpc[w] \in {"update", "mcmc", "ret"}
           => search_direction[w] = mean_grad
      /\ wpc[w] \in {"loss", "pmean_loss", "grad", "pmean_grad", "update"}
           => w_params[w] = params[w] /\ w_state[w] = opt_state_pt[w]
      /\ wpc[w] \in {"mcmc", "ret"}
           => LET u == OptUpdate(search_direction[w], opt_state_pt[w], params[w])
              IN /\ w_params[w] = ApplyUpdates(params[w], u.updates)
                 /\ w_state[w] = u.state
      /\ wpc[w] # "ret"
           => /\ mh_calls[w] = 0
              /\ w_data[w] = ShardOf(data, w)
              /\ w_logprob[w] = logprob[w]
      /\ wpc[w] = "ret"
           => /\ mh_calls[w] = 1
              /\ w_accepts[w] =
                   Cardinality({b \in 1..NumWalkers :
                                  WalkerAt(w_data[w], b - 1)
                                    # WalkerAt(ShardOf(data, w), b - 1)})
              /\ \A b \in 1..NumWalkers :
                   IF WalkerAt(w_data[w], b - 1) = WalkerAt(ShardOf(data, w), b - 1)
                     THEN w_logprob[w][b] = logprob[w][b]
                     ELSE /\ w_logprob[w][b] =
                               FMul(2, Network(w_params[w], WalkerAt(w_data[w], b - 1)))
                          /\ FSub(w_logprob[w][b], logprob[w][b]) # NaN

\* a step that moved the parameters and then moved a walker
C3_Witness ==
  /\ pc = "step"
  /\ wpc[1] = "ret"
  /\ w_params[1] # params[1]
  /\ w_params[1]["w"] # NaN
  /\ w_data[1] # ShardOf(data, 1)
  /\ FMul(2, Network(params[1], WalkerAt(w_data[1], 0))) # w_logprob[1][1]

\* the driver or a worker has a step to take: the driver is before or in its
\* loop, or in a step some worker is at its own code, or all of them are
\* at the same collective or have returned
Running ==
  \/ pc \in {"setup", "loop"}
  \/ /\ pc = "step"
     /\ \/ \E w \in Workers : wpc[w] \in {"loss", "grad", "update", "mcmc"}
        \/ \E ph \in {"pmean_loss", "pmean_grad", "ret"} :
             \A w \in Workers : wpc[w] = ph

\* C4: the driver calls pretrain_step exactly `iterations` times whatever the
\* losses are, then returns the parameters and positions of the last step
\* (those it was given when iterations = 0), and never stops before
C4_FullCount ==
  /\ pc = "done"
       => /\ steps = iterations
          /\ Len(logged) = iterations
          /\ ret.returned
          /\ iterations = 0
               => /\ ret.params = [w \in Workers |-> arg_params]
                  /\ ret.data = arg_data
          /\ iterations > 0
               => /\ ret.params = w_params
                  /\ ret.data = Unshard(w_data)
  /\ pc # "done"
       => /\ steps <= iterations
          /\ ~ret.returned
          /\ Running

\* a run of the largest iteration count whose first loss was not finite
C4_Witness ==
  /\ pc = "done"
  /\ iterations = MaxIter
  /\ logged[1] = NaN

\* C8: the envelope closure is chosen once, before the loop: 'exact_cusp' and
\* 'output' choose their envelopes, every other envelope_type the closure that
\* is 0.0 for all parameters and positions, so that the envelope factor of the
\* loss is 1 in every iteration
C8_EnvelopeChosenOnce ==
  /\ [](pc \notin {"off", "setup"}
          => /\ envelope_fn = (IF envelope_type \in {"exact_cusp", "output"}
                                 THEN envelope_type ELSE "zero")
             /\ envelope_type \notin {"exact_cusp", "output"}
                  => /\ \A pe \in {-1, 0, 1, NaN}, x \in Walkers :
                          EnvelopeFn(envelope_fn, pe, x) = 0
                     /\ \A w \in Workers :
                          (pc = "step" /\ wpc[w] # "loss")
                            => \A b \in 1..NumWalkers : w_env[w][b] = 1)
  /\ [][pc \notin {"off", "setup"} => envelope_fn' = envelope_fn]_vars

\* a second iteration under an envelope type the driver does not know
C8_Witness ==
  /\ pc = "step"
  /\ t >= 1
  /\ envelope_type = "isotropic"
  /\ wpc[1] = "ret"
  /\ w_env[1] = <<1>>

\* C10: in every iteration the target handed to pretrain_step is
\* eval_orbitals at the very positions handed to that call
C10_FreshTarget ==
  pc = "step"
    => /\ target = EvalOrbitals(data, Electrons)
       /\ \A w \in Workers :
            wpc[w] \in {"loss", "pmean_loss", "grad", "pmean_grad", "update", "mcmc"}
              => w_data[w] = ShardOf(data, w)

\* a later iteration whose positions, and target, are not the first ones
C10_Witness ==
  /\ pc = "step"
  /\ t >= 1
  /\ data # arg_data
  /\ target # EvalOrbitals(arg_data, Electrons)

====
